---- MODULE Spec2Model ----
(***************************************************************************)
(* Model of the mod application engine of the HoN Mod Manager              *)
(* (source/ModManager26.py, class ModApplicator; ModManager19.py holds the *)
(* same engine line for line).                                             *)
(*                                                                         *)
(* Text is a sequence of code points, file content a sequence of bytes.    *)
(* Offsets are the 0-based offsets of the Python code.                     *)
(***************************************************************************)
EXTENDS Integers, Sequences, FiniteSets, TLC

VARIABLES
    \* ---- one edit block of _process_mod (lines 846-948) ----
    current_content_bytes, \* bytes of the target at block entry
    text_content,          \* the decoded buffer
    newline_mode,          \* line-break style detected at block entry
    cursor, match_start, match_end,
    child,                 \* the directive executed last (loop variable)
    found_idx,             \* result of the last search
    nexec,                 \* directives of the block executed so far
    edit_pc,               \* "loop" | "stored" | "error"
    stored_bytes,          \* what the block stored back into the table
    script,                \* the children of the <editfile> node being run
    \* ---- the mod library and the file system ----
    INSTALLED_MODS,        \* mod ids in library order
    enabled,               \* enabled flag of every installed mod
    saved_enabled_mods,    \* self.saved_enabled_mods, read at program start
    last_set,              \* the flag the user last gave every mod
    base_exists,           \* resources0_path.exists()
    out_dir_exists,        \* output_dir.exists()
    final_output,          \* extensions/resources0.jz
    temp_output,           \* extensions/resources0.zip
    \* ---- one call of ModApplicator.apply_mods ----
    pc,                    \* position inside apply_mods
    enabled_mods,          \* the enabled mods of this call, in order
    mod_i,                 \* next mod of enabled_mods to process
    modified_files,        \* the working table
    exc,                   \* text of the exception being handled, "" if none
    ret,                   \* the (success, message) pair returned
    \* ---- history of the current call ----
    final_at_start,        \* final_output when the call began
    temp_at_start,         \* temp_output when the call began
    raised_at,             \* step of the call that raised first, "" if none
    pkg_failed,            \* mods of this call whose processing failed
    run_log,               \* what the packages did to the table, in order
    repeat                 \* the call repeats the previous, successful one

editvars == <<current_content_bytes, text_content, newline_mode, cursor,
              match_start, match_end, child, found_idx, nexec, edit_pc,
              stored_bytes, script>>

libvars == <<INSTALLED_MODS, enabled, saved_enabled_mods, last_set,
             base_exists>>

fsvars == <<out_dir_exists, final_output, temp_output>>

runvars == <<pc, enabled_mods, mod_i, modified_files, exc, ret>>

histvars == <<final_at_start, temp_at_start, raised_at, pkg_failed, run_log,
              repeat>>

vars == <<editvars, libvars, fsvars, runvars, histvars>>

\* ------------------------------------------------------------------------
\* Bounds
\* ------------------------------------------------------------------------
MaxBuf  == 2    \* longest target content drawn at block entry
MaxText == 3    \* longest buffer a block is followed to
MaxLit  == 1    \* most units (a letter or a line break) of a directive literal
MaxDirs == 3    \* most directives in one edit block

\* ------------------------------------------------------------------------
\* Characters
\* ------------------------------------------------------------------------
CR == 13
LF == 10
\* the letters the packages and the base archive are written in
Letter == [a |-> 97, b |-> 98, c |-> 99, d |-> 100]
ChA == Letter.a
ChB == Letter.b
ChC == Letter.c
ChD == Letter.d

CRLF == <<CR, LF>>

TextAlphabet == {ChA, CR, LF}

RECURSIVE SeqsUpTo(_, _)
SeqsUpTo(S, n) ==
    IF n = 0 THEN {<<>>}
    ELSE LET shorter == SeqsUpTo(S, n - 1)
         IN  shorter \cup {Append(s, x) : s \in shorter, x \in S}

\* ------------------------------------------------------------------------
\* Python string primitives used by the engine
\* ------------------------------------------------------------------------
Min(a, b) == IF a <= b THEN a ELSE b

\* s[i:j] for 0 <= i <= j <= len(s)
Slice(s, i, j) == SubSeq(s, i + 1, j)

\* sub occurs in s at offset i
OccursAt(s, sub, i) ==
    /\ i >= 0
    /\ i + Len(sub) <= Len(s)
    /\ SubSeq(s, i + 1, i + Len(sub)) = sub

\* str.find(sub, start): lowest offset >= start of an occurrence, else -1
RECURSIVE StrFind(_, _, _)
StrFind(s, sub, start) ==
    IF start + Len(sub) > Len(s) THEN -1
    ELSE IF OccursAt(s, sub, start) THEN start
    ELSE StrFind(s, sub, start + 1)

RECURSIVE RFindFrom(_, _, _, _)
RFindFrom(s, sub, lo, i) ==
    IF i < lo THEN -1
    ELSE IF OccursAt(s, sub, i) THEN i
    ELSE RFindFrom(s, sub, lo, i - 1)

\* str.rfind(sub, lo, hi): highest offset of an occurrence inside s[lo:hi]
StrRFind(s, sub, lo, hi) == RFindFrom(s, sub, lo, Min(hi, Len(s)) - Len(sub))

\* str.replace(old, new) for a non-empty old: every non-overlapping
\* occurrence, left to right
RECURSIVE StrReplace(_, _, _)
StrReplace(s, old, new) ==
    IF Len(s) = 0 THEN <<>>
    ELSE IF OccursAt(s, old, 0)
         THEN new \o StrReplace(SubSeq(s, Len(old) + 1, Len(s)), old, new)
         ELSE <<s[1]>> \o StrReplace(Tail(s), old, new)

\* "sub in s"
Contains(s, sub) == StrFind(s, sub, 0) # -1

\* ------------------------------------------------------------------------
\* Encodings (code points below 2048, i.e. the one and two byte forms)
\* ------------------------------------------------------------------------
IsCont(b) == b >= 128 /\ b <= 191
IsLead2(b) == b >= 194 /\ b <= 223

\* bytes.decode('utf-8') succeeds
RECURSIVE Utf8Valid(_)
Utf8Valid(bs) ==
    IF Len(bs) = 0 THEN TRUE
    ELSE IF bs[1] < 128 THEN Utf8Valid(Tail(bs))
    ELSE IF IsLead2(bs[1]) /\ Len(bs) >= 2 /\ IsCont(bs[2])
         THEN Utf8Valid(Tail(Tail(bs)))
         ELSE FALSE

\* bytes.decode('utf-8') of valid input
RECURSIVE Utf8Decode(_)
Utf8Decode(bs) ==
    IF Len(bs) = 0 THEN <<>>
    ELSE IF bs[1] < 128 THEN <<bs[1]>> \o Utf8Decode(Tail(bs))
    ELSE <<(bs[1] - 192) * 64 + (bs[2] - 128)>> \o Utf8Decode(Tail(Tail(bs)))

\* bytes.decode('latin-1'): byte k is code point k, never fails
Latin1Decode(bs) == [i \in 1..Len(bs) |-> bs[i]]

\* str.encode('utf-8')
RECURSIVE Utf8Encode(_)
Utf8Encode(cps) ==
    IF Len(cps) = 0 THEN <<>>
    ELSE IF cps[1] < 128 THEN <<cps[1]>> \o Utf8Encode(Tail(cps))
    ELSE <<192 + (cps[1] \div 64), 128 + (cps[1] % 64)>> \o Utf8Encode(Tail(cps))

\* lines 851-854
DecodeContent(bs) == IF Utf8Valid(bs) THEN Utf8Decode(bs) ELSE Latin1Decode(bs)

\* lines 857-860
DetectNewline(text) == IF Contains(text, CRLF) THEN CRLF ELSE <<LF>>

\* the literal taken as it is written, without translating line breaks
NormalizeLiteral_Verbatim(raw_text, mode) == raw_text

\* line 873
NormalizeLiteral(raw_text, mode) ==
    StrReplace(StrReplace(raw_text, CRLF, <<LF>>), <<LF>>, mode)

\* ------------------------------------------------------------------------
\* Directives.  A directive is [tag, text, position]; position "" stands
\* for a missing position attribute.
\* ------------------------------------------------------------------------
\* A literal is made of letters and line breaks; a line break is LF or CRLF
\* (the XML parser hands over LF, a CR reaches the engine only in front of an
\* LF, as a character reference)
LiteralUnits == {<<ChA>>, <<LF>>, CRLF}

RECURSIVE UnitsUpTo(_)
UnitsUpTo(n) ==
    IF n = 0 THEN {<<>>}
    ELSE LET shorter == UnitsUpTo(n - 1)
         IN  shorter \cup {s \o u : s \in shorter, u \in LiteralUnits}

Literals == UnitsUpTo(MaxLit)

Directives ==
    [tag : {"find", "replace"}, text : Literals, position : {""}]
      \cup [tag : {"findup"}, text : Literals, position : {"", "cursor", "end"}]
      \cup [tag : {"insert"}, text : Literals, position : {"", "after", "before"}]

NoChild == [tag |-> "", text |-> <<>>, position |-> ""]

MatchState(t, c, ms, me, f) ==
    [text_content |-> t, cursor |-> c, match_start |-> ms, match_end |-> me,
     found_idx |-> f]

\* DoFind searching from the start of the buffer instead of the cursor
DoFind_FromStart(st, search_text) ==
    LET idx == StrFind(st.text_content, search_text, 0)
    IN  IF idx # -1
        THEN MatchState(st.text_content, idx + Len(search_text), idx,
                        idx + Len(search_text), idx)
        ELSE [st EXCEPT !.found_idx = idx]

\* lines 875-885
DoFind(st, search_text) ==
    LET idx == StrFind(st.text_content, search_text, st.cursor)
    IN  IF idx # -1
        THEN MatchState(st.text_content, idx + Len(search_text), idx,
                        idx + Len(search_text), idx)
        ELSE [st EXCEPT !.found_idx = idx]

\* DoFindUp without the position test: always bounded by the buffer's end
DoFindUp_AlwaysEnd(st, search_text, position) ==
    LET idx == StrRFind(st.text_content, search_text, 0, Len(st.text_content))
    IN  IF idx # -1
        THEN MatchState(st.text_content, idx + Len(search_text), idx,
                        idx + Len(search_text), idx)
        ELSE [st EXCEPT !.found_idx = idx]

\* lines 887-901
DoFindUp(st, search_text, position) ==
    LET start_pos == IF position # "end" THEN st.cursor
                     ELSE Len(st.text_content)
        idx == StrRFind(st.text_content, search_text, 0, start_pos)
    IN  IF idx # -1
        THEN MatchState(st.text_content, idx + Len(search_text), idx,
                        idx + Len(search_text), idx)
        ELSE [st EXCEPT !.found_idx = idx]

\* DoReplace keeping the end of the match and the cursor where they were
DoReplace_StaleSpan(st, search_text) ==
    IF st.match_start # -1
    THEN LET t == Slice(st.text_content, 0, st.match_start) \o search_text
                    \o Slice(st.text_content, st.match_end, Len(st.text_content))
         IN  MatchState(t, st.cursor, st.match_start, st.match_end, st.found_idx)
    ELSE st

\* DoReplace leaving the cursor at the start of the replacement
DoReplace_CursorAtStart(st, search_text) ==
    IF st.match_start # -1
    THEN LET t == Slice(st.text_content, 0, st.match_start) \o search_text
                    \o Slice(st.text_content, st.match_end, Len(st.text_content))
             me == st.match_start + Len(search_text)
         IN  MatchState(t, st.match_start, st.match_start, me, st.found_idx)
    ELSE st

\* DoReplace moving the end of the match but not the cursor
DoReplace_KeepCursor(st, search_text) ==
    IF st.match_start # -1
    THEN LET t == Slice(st.text_content, 0, st.match_start) \o search_text
                    \o Slice(st.text_content, st.match_end, Len(st.text_content))
             me == st.match_start + Len(search_text)
         IN  MatchState(t, st.cursor, st.match_start, me, st.found_idx)
    ELSE st

\* lines 903-916
DoReplace(st, search_text) ==
    IF st.match_start # -1
    THEN LET t == Slice(st.text_content, 0, st.match_start) \o search_text
                    \o Slice(st.text_content, st.match_end, Len(st.text_content))
             me == st.match_start + Len(search_text)
         IN  MatchState(t, me, st.match_start, me, st.found_idx)
    ELSE st

\* DoInsert that does not move the match and the cursor when it inserts
\* before the match
DoInsert_NoShift(st, search_text, position) ==
    IF st.match_start # -1
    THEN IF position = "before"
         THEN LET t == Slice(st.text_content, 0, st.match_start) \o search_text
                         \o Slice(st.text_content, st.match_start,
                                  Len(st.text_content))
              IN  MatchState(t, st.cursor, st.match_start, st.match_end,
                             st.found_idx)
         ELSE LET t == Slice(st.text_content, 0, st.match_end) \o search_text
                         \o Slice(st.text_content, st.match_end,
                                  Len(st.text_content))
              IN  MatchState(t, st.cursor + Len(search_text), st.match_start,
                             st.match_end, st.found_idx)
    ELSE st

\* DoInsert splicing at the cursor instead of the end of the match
DoInsert_AtCursor(st, search_text, position) ==
    IF st.match_start # -1
    THEN IF position = "before"
         THEN LET t == Slice(st.text_content, 0, st.match_start) \o search_text
                         \o Slice(st.text_content, st.match_start,
                                  Len(st.text_content))
                  shift == Len(search_text)
              IN  MatchState(t, st.cursor + shift, st.match_start + shift,
                             st.match_end + shift, st.found_idx)
         ELSE LET t == Slice(st.text_content, 0, st.cursor) \o search_text
                         \o Slice(st.text_content, st.cursor,
                                  Len(st.text_content))
              IN  MatchState(t, st.cursor + Len(search_text), st.match_start,
                             st.match_end, st.found_idx)
    ELSE st

\* DoInsert without the test for a match: with none it splices at the cursor
DoInsert_NoGuard(st, search_text, position) ==
    LET at == IF st.match_start = -1 THEN st.cursor
              ELSE IF position = "before" THEN st.match_start
              ELSE st.match_end
        t == Slice(st.text_content, 0, at) \o search_text
               \o Slice(st.text_content, at, Len(st.text_content))
        shift == Len(search_text)
    IN  IF st.match_start # -1 /\ position = "before"
        THEN MatchState(t, st.cursor + shift, st.match_start + shift,
                        st.match_end + shift, st.found_idx)
        ELSE MatchState(t, st.cursor + shift, st.match_start, st.match_end,
                        st.found_idx)

\* lines 918-943
DoInsert(st, search_text, position) ==
    IF st.match_start # -1
    THEN IF position = "before"
         THEN LET t == Slice(st.text_content, 0, st.match_start) \o search_text
                         \o Slice(st.text_content, st.match_start,
                                  Len(st.text_content))
                  shift == Len(search_text)
              IN  MatchState(t, st.cursor + shift, st.match_start + shift,
                             st.match_end + shift, st.found_idx)
         ELSE LET t == Slice(st.text_content, 0, st.match_end) \o search_text
                         \o Slice(st.text_content, st.match_end,
                                  Len(st.text_content))
              IN  MatchState(t, st.cursor + Len(search_text), st.match_start,
                             st.match_end, st.found_idx)
    ELSE st

\* lines 868-943: one iteration of the directive loop
ApplyDirective(st, d, mode) ==
    LET search_text == NormalizeLiteral(d.text, mode)
    IN  CASE d.tag = "find"    -> DoFind(st, search_text)
          [] d.tag = "findup"  -> DoFindUp(st, search_text, d.position)
          [] d.tag = "replace" -> DoReplace(st, search_text)
          [] d.tag = "insert"  -> DoInsert(st, search_text, d.position)
          [] OTHER             -> st

\* ------------------------------------------------------------------------
\* Archives, packages and the working table
\* ------------------------------------------------------------------------
EmptyTable == [p \in {} |-> <<>>]

\* table[k] = v
Put(t, k, v) == [p \in DOMAIN t \cup {k} |-> IF p = k THEN v ELSE t[p]]

\* a file of the output directory: absent, partially written, or a complete
\* archive holding the mapping entries
Absent == [state |-> "absent", entries |-> EmptyTable]
Partial == [state |-> "partial", entries |-> EmptyTable]
Complete(t) == [state |-> "complete", entries |-> t]

\* the base archive heroes of newerth/resources0.jz
BaseFiles ==
    Put(Put(Put(Put(EmptyTable, "x", <<ChA, ChB>>), "e", <<>>), "z", <<233>>),
        "n", <<ChD>>)

\* a derived archive left by an earlier session
StaleArchive == Put(EmptyTable, "old", <<ChA>>)

Member(filename, data) == [filename |-> filename, is_dir |-> FALSE, data |-> data]
DirMember(filename) == [filename |-> filename, is_dir |-> TRUE, data |-> <<>>]

Dir(tag, text, position) == [tag |-> tag, text |-> text, position |-> position]

\* <editfile name=...>: raises stands for an exception raised while the
\* block is interpreted (lines 849-948)
EditFile(name, children) == [name |-> name, children |-> children, raises |-> FALSE]
RaisingEditFile(name, children) == [name |-> name, children |-> children, raises |-> TRUE]

ModIds == {"A", "B", "C", "D"}

\* the package files of extensions/mods; icon is the icon attribute of the
\* manifest root ("icon.png" when the attribute is missing)
Package(m) ==
    CASE m = "A" ->
           [readable |-> TRUE,
            members |-> <<Member("mod.xml", <<>>), Member("n", <<ChA>>),
                          Member("logo.png", <<ChD>>)>>,
            well_formed |-> TRUE,
            icon |-> "logo.png",
            editfiles |-> <<EditFile("x", <<Dir("find", <<ChA>>, ""),
                                           Dir("replace", <<ChA, ChC>>, "")>>),
                            EditFile("x", <<Dir("insert", <<ChD>>, ""),
                                           Dir("find", <<ChC>>, "")>>),
                            EditFile("n", <<Dir("find", <<ChA>>, ""),
                                           Dir("insert", <<ChC>>, "")>>),
                            EditFile("e", <<Dir("find", <<>>, ""),
                                           Dir("insert", <<ChA>>, "")>>),
                            EditFile("z", <<Dir("find", <<ChA>>, "")>>)>>]
      [] m = "B" ->
           [readable |-> TRUE,
            members |-> <<Member("mod.xml", <<>>), Member("n", <<ChB>>),
                          DirMember("d/"), Member("d\\m", <<ChB>>),
                          Member("Icon.PNG", <<ChD>>)>>,
            well_formed |-> TRUE,
            icon |-> "icon.png",
            editfiles |-> <<EditFile("x", <<Dir("replace", <<ChB>>, ""),
                                           Dir("find", <<ChC>>, ""),
                                           Dir("insert", <<ChD>>, "")>>),
                            RaisingEditFile("z", <<>>),
                            EditFile("missing", <<Dir("find", <<ChA>>, "")>>),
                            EditFile("d/m", <<Dir("find", <<ChB>>, ""),
                                             Dir("insert", <<ChA>>, "")>>)>>]
      [] m = "C" ->
           [readable |-> TRUE,
            members |-> <<Member("k", <<ChC>>), Member("mod.xml", <<>>)>>,
            well_formed |-> FALSE,
            icon |-> "icon.png",
            editfiles |-> <<>>]
      [] OTHER ->
           [readable |-> FALSE, members |-> <<>>, well_formed |-> FALSE,
            icon |-> "icon.png", editfiles |-> <<>>]

\* line 822
ignored_files == {"mod.xml", "icon.png", "changelog.txt", "icon.jpg", "thumbs.db"}

\* line 826: fname.replace("\\", "/") on the member names of the packages
CleanName(fname) == IF fname = "d\\m" THEN "d/m" ELSE fname

\* str.lower() on the member names of the packages
Lower(fname) == IF fname = "Icon.PNG" THEN "icon.png" ELSE fname

Event(mod, kind, path, entry, exit) ==
    [mod |-> mod, kind |-> kind, path |-> path, entry |-> entry, exit |-> exit]

\* the table and the history a package is working on
Work(files, log) == [files |-> files, log |-> log]

\* InjectAssets that copies a member only where the table has no entry yet
RECURSIVE InjectAssets_KeepExisting(_, _, _)
InjectAssets_KeepExisting(mod, members, w) ==
    IF Len(members) = 0 THEN w
    ELSE LET file_info == Head(members)
             fname_clean == CleanName(file_info.filename)
         IN  IF file_info.is_dir \/ Lower(fname_clean) \in ignored_files
                  \/ fname_clean \in DOMAIN w.files
             THEN InjectAssets_KeepExisting(mod, Tail(members), w)
             ELSE InjectAssets_KeepExisting(mod, Tail(members),
                     Work(Put(w.files, fname_clean, file_info.data),
                          Append(w.log, Event(mod, "inject", fname_clean,
                                              <<>>, file_info.data))))

\* lines 824-829
RECURSIVE InjectAssets(_, _, _)
InjectAssets(mod, members, w) ==
    IF Len(members) = 0 THEN w
    ELSE LET file_info == Head(members)
             fname_clean == CleanName(file_info.filename)
         IN  IF file_info.is_dir \/ Lower(fname_clean) \in ignored_files
             THEN InjectAssets(mod, Tail(members), w)
             ELSE InjectAssets(mod, Tail(members),
                     Work(Put(w.files, fname_clean, file_info.data),
                          Append(w.log, Event(mod, "inject", fname_clean,
                                              <<>>, file_info.data))))

\* _load_base_file reading the derived archive where there is one
BaseArchive_Derived ==
    IF final_output.state = "complete" THEN final_output.entries
    ELSE IF base_exists THEN BaseFiles ELSE EmptyTable

\* lines 954-961: the archive _load_base_file reads; failing to open it is
\* caught and loads nothing
BaseArchive == IF base_exists THEN BaseFiles ELSE EmptyTable

\* lines 952-961
LoadBaseFile(mod, filename, w) ==
    IF filename \in DOMAIN w.files THEN w
    ELSE IF filename \in DOMAIN BaseArchive
         THEN Work(Put(w.files, filename, BaseArchive[filename]),
                   Append(w.log, Event(mod, "load", filename, <<>>,
                                       BaseArchive[filename])))
         ELSE w

\* lines 868-943: the directive loop of one block
RECURSIVE RunDirectives(_, _, _)
RunDirectives(st, children, mode) ==
    IF Len(children) = 0 THEN st
    ELSE RunDirectives(ApplyDirective(st, Head(children), mode),
                       Tail(children), mode)

\* lines 849-945: decode, interpret, encode
PatchContent(content_bytes, children) ==
    LET text == DecodeContent(content_bytes)
        st == RunDirectives(MatchState(text, 0, -1, -1, -1), children,
                            DetectNewline(text))
    IN  Utf8Encode(st.text_content)

\* ProcessEditFile fetching the target from the base archive every time
ProcessEditFile_FromBase(mod, edit_node, w) ==
    IF edit_node.name = "" \/ edit_node.name \notin DOMAIN BaseArchive
          \/ edit_node.raises
    THEN w
    ELSE LET entry == BaseArchive[edit_node.name]
             exit == PatchContent(entry, edit_node.children)
         IN  Work(Put(w.files, edit_node.name, exit),
                  Append(w.log, Event(mod, "edit", edit_node.name, entry, exit)))

\* ProcessEditFile reading the target from the base archive whenever the
\* base archive has it, also when the table already holds the path
ProcessEditFile_Reloads(mod, edit_node, w) ==
    IF edit_node.name = "" THEN w
    ELSE LET target_file == edit_node.name
             loaded == IF target_file \in DOMAIN BaseArchive
                       THEN Work(Put(w.files, target_file, BaseArchive[target_file]),
                                 Append(w.log, Event(mod, "load", target_file, <<>>,
                                                     BaseArchive[target_file])))
                       ELSE w
         IN  IF target_file \notin DOMAIN loaded.files
                  \/ Len(loaded.files[target_file]) = 0
             THEN Work(loaded.files,
                       Append(loaded.log, Event(mod, "skip", target_file,
                                                <<>>, <<>>)))
             ELSE IF edit_node.raises
             THEN Work(loaded.files,
                       Append(loaded.log, Event(mod, "error", target_file,
                                   loaded.files[target_file], <<>>)))
             ELSE LET entry == loaded.files[target_file]
                      exit == PatchContent(entry, edit_node.children)
                  IN  Work(Put(loaded.files, target_file, exit),
                           Append(loaded.log, Event(mod, "edit", target_file,
                                                    entry, exit)))

\* lines 839-948: one <editfile> block
ProcessEditFile(mod, edit_node, w) ==
    IF edit_node.name = "" THEN w
    ELSE LET target_file == edit_node.name
             loaded == IF target_file \notin DOMAIN w.files
                       THEN LoadBaseFile(mod, target_file, w)
                       ELSE w
         IN  IF target_file \notin DOMAIN loaded.files
                  \/ Len(loaded.files[target_file]) = 0
             THEN Work(loaded.files,
                       Append(loaded.log, Event(mod, "skip", target_file,
                                                <<>>, <<>>)))
             ELSE IF edit_node.raises
             THEN Work(loaded.files,
                       Append(loaded.log, Event(mod, "error", target_file,
                                   loaded.files[target_file], <<>>)))
             ELSE LET entry == loaded.files[target_file]
                      exit == PatchContent(entry, edit_node.children)
                  IN  Work(Put(loaded.files, target_file, exit),
                           Append(loaded.log, Event(mod, "edit", target_file,
                                                    entry, exit)))

\* ProcessEditFiles giving up the manifest at the first block whose target
\* is in neither the table nor the base archive
RECURSIVE ProcessEditFiles_StopOnMissing(_, _, _)
ProcessEditFiles_StopOnMissing(mod, editfiles, w) ==
    IF Len(editfiles) = 0 THEN w
    ELSE IF Head(editfiles).name \notin DOMAIN w.files \cup DOMAIN BaseArchive
    THEN ProcessEditFile(mod, Head(editfiles), w)
    ELSE ProcessEditFiles_StopOnMissing(mod, Tail(editfiles),
                          ProcessEditFile(mod, Head(editfiles), w))

\* ProcessEditFiles keeping cursor and match of a block for the next block
\* of the manifest when that block is on the same target
RECURSIVE ProcessEditFiles_CarriesMatch(_, _, _)
ProcessEditFiles_CarriesMatch(mod, editfiles, w) ==
    IF Len(editfiles) = 0 THEN w
    ELSE LET w1 == ProcessEditFile(mod, Head(editfiles), w)
         IN  IF /\ Len(editfiles) >= 2
                /\ editfiles[2].name = Head(editfiles).name
                /\ ~editfiles[2].raises
                /\ Len(w1.log) > Len(w.log)
                /\ w1.log[Len(w1.log)].kind = "edit"
             THEN LET first == w1.log[Len(w1.log)]
                      exit == PatchContent(first.entry,
                                 Head(editfiles).children \o editfiles[2].children)
                  IN  ProcessEditFiles_CarriesMatch(mod, Tail(Tail(editfiles)),
                         Work(Put(w1.files, first.path, exit),
                              Append(w1.log, Event(mod, "edit", first.path,
                                                   first.exit, exit))))
             ELSE ProcessEditFiles_CarriesMatch(mod, Tail(editfiles), w1)

\* lines 838-948
RECURSIVE ProcessEditFiles(_, _, _)
ProcessEditFiles(mod, editfiles, w) ==
    IF Len(editfiles) = 0 THEN w
    ELSE ProcessEditFiles(mod, Tail(editfiles),
                          ProcessEditFile(mod, Head(editfiles), w))

HasManifest(pkg) ==
    \E i \in 1..Len(pkg.members) : pkg.members[i].filename = "mod.xml"

\* lines 949-950: the package raised and the handler of _process_mod ran
PackageRaises(mod) ==
    LET pkg == Package(mod)
    IN  \/ ~pkg.readable
        \/ (HasManifest(pkg) /\ ~pkg.well_formed)

\* ProcessMod running the edit blocks of the manifest before it copies the
\* assets of the package
ProcessMod_BlocksFirst(mod, w) ==
    LET pkg == Package(mod)
    IN  IF ~pkg.readable THEN w
        ELSE IF ~HasManifest(pkg) \/ ~pkg.well_formed
        THEN InjectAssets(mod, pkg.members, w)
        ELSE InjectAssets(mod, pkg.members,
                          ProcessEditFiles(mod, pkg.editfiles, w))

\* lines 816-950
ProcessMod(mod, w) ==
    LET pkg == Package(mod)
    IN  IF ~pkg.readable THEN w
        ELSE LET injected == InjectAssets(mod, pkg.members, w)
             IN  IF ~HasManifest(pkg) \/ ~pkg.well_formed THEN injected
                 ELSE ProcessEditFiles(mod, pkg.editfiles, injected)

\* ------------------------------------------------------------------------
\* apply_mods, one file system operation per step
\* ------------------------------------------------------------------------
Result(ok, msg, count) == [ok |-> ok, msg |-> msg, count |-> count]

NoResult == Result(FALSE, "", 0)

\* line 769
RECURSIVE EnabledOf(_, _)
EnabledOf(mods, flags) ==
    IF Len(mods) = 0 THEN <<>>
    ELSE IF flags[Head(mods)]
         THEN <<Head(mods)>> \o EnabledOf(Tail(mods), flags)
         ELSE EnabledOf(Tail(mods), flags)

Orders(S) ==
    {q \in [1..Cardinality(S) -> S] : \A x \in S : \E i \in DOMAIN q : q[i] = x}

\* no call of apply_mods has been made
EngineIdle ==
    /\ INSTALLED_MODS = <<"A", "B", "C", "D">>
    /\ enabled = [m \in ModIds |-> FALSE]
    /\ saved_enabled_mods = {}
    /\ last_set = enabled
    /\ base_exists = TRUE
    /\ out_dir_exists = TRUE
    /\ final_output = Absent
    /\ temp_output = Absent
    /\ pc = "idle"
    /\ enabled_mods = <<>>
    /\ mod_i = 1
    /\ modified_files = EmptyTable
    /\ exc = ""
    /\ ret = NoResult
    /\ final_at_start = Absent
    /\ temp_at_start = Absent
    /\ raised_at = ""
    /\ pkg_failed = {}
    /\ run_log = <<>>
    /\ repeat = FALSE

EditIdle ==
    /\ current_content_bytes = <<>>
    /\ text_content = <<>>
    /\ newline_mode = <<LF>>
    /\ cursor = 0
    /\ match_start = -1
    /\ match_end = -1
    /\ child = NoChild
    /\ found_idx = -1
    /\ nexec = 0
    /\ edit_pc = "loop"
    /\ stored_bytes = <<>>
    /\ script = <<>>

Init ==
    /\ EditIdle
    /\ INSTALLED_MODS \in Orders(ModIds)
    /\ enabled = [m \in ModIds |-> FALSE]
    /\ saved_enabled_mods = {}
    /\ last_set = enabled
    /\ base_exists \in BOOLEAN
    /\ final_output \in {Absent, Complete(StaleArchive)}
    /\ out_dir_exists \in (IF final_output = Absent THEN BOOLEAN ELSE {TRUE})
    /\ temp_output = Absent
    /\ pc = "idle"
    /\ enabled_mods = <<>>
    /\ mod_i = 1
    /\ modified_files = EmptyTable
    /\ exc = ""
    /\ ret = NoResult
    /\ final_at_start = final_output
    /\ temp_at_start = temp_output
    /\ raised_at = ""
    /\ pkg_failed = {}
    /\ run_log = <<>>
    /\ repeat = FALSE

\* the ids of the mods in the library
Installed == {INSTALLED_MODS[i] : i \in DOMAIN INSTALLED_MODS}

\* no call of apply_mods is in flight
Returned == pc \in {"idle", "done", "raised"}

\* ToggleSwitch of a mod card (lines 551, 559).  The ModApplicator of the
\* last call is a local of HoNModManager.apply_mods: nothing of it is left.
Toggle ==
    /\ Returned
    /\ \E m \in Installed : enabled' = [enabled EXCEPT ![m] = ~enabled[m]]
    /\ last_set' = enabled'
    /\ pc' = "idle"
    /\ enabled_mods' = <<>>
    /\ mod_i' = 1
    /\ modified_files' = EmptyTable
    /\ exc' = ""
    /\ ret' = NoResult
    /\ final_at_start' = final_output
    /\ temp_at_start' = temp_output
    /\ raised_at' = ""
    /\ pkg_failed' = {}
    /\ run_log' = <<>>
    /\ repeat' = FALSE
    /\ UNCHANGED <<editvars, INSTALLED_MODS, saved_enabled_mods, base_exists,
                   fsvars>>

\* apply_mods without the test of line 784
BaseMissing_Never == FALSE

\* line 784
BaseMissing == ~base_exists

\* lines 769-789: entry of apply_mods up to the first file system change
Start ==
    /\ Returned
    /\ LET mods == EnabledOf(INSTALLED_MODS, enabled)
       IN  /\ enabled_mods' = mods
           /\ repeat' = (pc = "done" /\ ret.ok /\ enabled_mods # <<>>
                          /\ mods = enabled_mods)
           /\ IF mods = <<>>
              THEN pc' = "cleanup" /\ ret' = NoResult
              ELSE IF BaseMissing
              THEN pc' = "done" /\ ret' = Result(FALSE, "Base archive not found", 0)
              ELSE pc' = "mods" /\ ret' = NoResult
    /\ mod_i' = 1
    /\ modified_files' = EmptyTable
    /\ exc' = ""
    /\ final_at_start' = final_output
    /\ temp_at_start' = temp_output
    /\ raised_at' = ""
    /\ pkg_failed' = {}
    /\ run_log' = <<>>
    /\ UNCHANGED <<editvars, libvars, fsvars>>

\* Cleanup reporting success without removing the derived archive
Cleanup_KeepFinal ==
    /\ pc = "cleanup"
    /\ pc' = "done"
    /\ ret' = Result(TRUE, "All mods disabled", 0)
    /\ UNCHANGED <<editvars, libvars, fsvars, enabled_mods, mod_i,
                   modified_files, exc, histvars>>

\* lines 778-782: no mod enabled
Cleanup ==
    /\ pc = "cleanup"
    /\ \E fails \in BOOLEAN :
          IF final_output.state = "absent"
          THEN /\ pc' = "done"
               /\ ret' = Result(TRUE, "All mods disabled", 0)
               /\ UNCHANGED <<final_output, raised_at>>
          ELSE IF fails
          THEN /\ pc' = "raised"
               /\ raised_at' = "cleanup"
               /\ UNCHANGED <<final_output, ret>>
          ELSE /\ final_output' = Absent
               /\ pc' = "done"
               /\ ret' = Result(TRUE, "All mods disabled", 0)
               /\ UNCHANGED raised_at
    /\ UNCHANGED <<editvars, libvars, out_dir_exists, temp_output, enabled_mods,
                   mod_i, modified_files, exc, final_at_start, temp_at_start,
                   pkg_failed, run_log, repeat>>

\* the exception e reaches the handler of line 810
Raise(step, text) ==
    /\ pc' = "except"
    /\ exc' = text
    /\ raised_at' = step

\* ProcessNextMod with a _process_mod that lets its exceptions escape
ProcessNextMod_Propagates ==
    /\ pc = "mods"
    /\ LET mod == enabled_mods[mod_i]
           w == ProcessMod(mod, Work(modified_files, run_log))
       IN  /\ modified_files' = w.files
           /\ run_log' = w.log
           /\ IF PackageRaises(mod)
              THEN /\ pkg_failed' = pkg_failed \cup {mod}
                   /\ Raise("package", "package failed")
                   /\ mod_i' = mod_i
              ELSE /\ pkg_failed' = pkg_failed
                   /\ mod_i' = mod_i + 1
                   /\ pc' = IF mod_i = Len(enabled_mods) THEN "mkdir" ELSE "mods"
                   /\ UNCHANGED <<exc, raised_at>>
    /\ UNCHANGED <<editvars, libvars, fsvars, enabled_mods, ret,
                   final_at_start, temp_at_start, repeat>>

\* lines 792-794: one iteration of the loop over the enabled mods
ProcessNextMod ==
    /\ pc = "mods"
    /\ LET mod == enabled_mods[mod_i]
           w == ProcessMod(mod, Work(modified_files, run_log))
       IN  /\ modified_files' = w.files
           /\ run_log' = w.log
           /\ pkg_failed' = IF PackageRaises(mod) THEN pkg_failed \cup {mod}
                            ELSE pkg_failed
    /\ mod_i' = mod_i + 1
    /\ pc' = IF mod_i = Len(enabled_mods) THEN "mkdir" ELSE "mods"
    /\ UNCHANGED <<editvars, libvars, fsvars, enabled_mods, exc, ret,
                   final_at_start, temp_at_start, raised_at, repeat>>

\* lines 796-797
MakeOutputDir ==
    /\ pc = "mkdir"
    /\ \E fails \in BOOLEAN :
          IF out_dir_exists
          THEN pc' = "write" /\ UNCHANGED <<out_dir_exists, exc, raised_at>>
          ELSE IF fails
          THEN Raise("mkdir", "mkdir failed") /\ UNCHANGED out_dir_exists
          ELSE /\ out_dir_exists' = TRUE
               /\ pc' = "write"
               /\ UNCHANGED <<exc, raised_at>>
    /\ UNCHANGED <<editvars, libvars, final_output, temp_output, enabled_mods,
                   mod_i, modified_files, ret, final_at_start, temp_at_start,
                   pkg_failed, run_log, repeat>>

\* WriteTemp adding the table to the entries of the derived archive in place
WriteTemp_Append ==
    /\ pc = "write"
    /\ \E outcome \in {"written", "open fails", "write fails"} :
          CASE outcome = "written" ->
                 /\ temp_output' = Complete(
                        [p \in DOMAIN modified_files \cup DOMAIN final_output.entries |->
                            IF p \in DOMAIN modified_files THEN modified_files[p]
                            ELSE final_output.entries[p]])
                 /\ pc' = "commit"
                 /\ UNCHANGED <<exc, raised_at>>
            [] outcome = "open fails" ->
                 /\ Raise("write", "open failed")
                 /\ UNCHANGED temp_output
            [] OTHER ->
                 /\ temp_output' = Partial
                 /\ Raise("write", "write failed")
    /\ UNCHANGED <<editvars, libvars, out_dir_exists, final_output,
                   enabled_mods, mod_i, modified_files, ret, final_at_start,
                   temp_at_start, pkg_failed, run_log, repeat>>

\* lines 799-802: the archive is written under the temporary name
WriteTemp ==
    /\ pc = "write"
    /\ \E outcome \in {"written", "open fails", "write fails"} :
          CASE outcome = "written" ->
                 /\ temp_output' = Complete(modified_files)
                 /\ pc' = "commit"
                 /\ UNCHANGED <<exc, raised_at>>
            [] outcome = "open fails" ->
                 /\ Raise("write", "open failed")
                 /\ UNCHANGED temp_output
            [] OTHER ->
                 /\ temp_output' = Partial
                 /\ Raise("write", "write failed")
    /\ UNCHANGED <<editvars, libvars, out_dir_exists, final_output,
                   enabled_mods, mod_i, modified_files, ret, final_at_start,
                   temp_at_start, pkg_failed, run_log, repeat>>

\* lines 804-805
RemoveFinal ==
    /\ pc = "commit"
    /\ \E fails \in BOOLEAN :
          IF final_output.state = "absent"
          THEN pc' = "rename" /\ UNCHANGED <<final_output, exc, raised_at>>
          ELSE IF fails
          THEN Raise("remove", "remove failed") /\ UNCHANGED final_output
          ELSE /\ final_output' = Absent
               /\ pc' = "rename"
               /\ UNCHANGED <<exc, raised_at>>
    /\ UNCHANGED <<editvars, libvars, out_dir_exists, temp_output, enabled_mods,
                   mod_i, modified_files, ret, final_at_start, temp_at_start,
                   pkg_failed, run_log, repeat>>

\* lines 806-808
RenameTemp ==
    /\ pc = "rename"
    /\ \E fails \in BOOLEAN :
          IF fails
          THEN /\ Raise("rename", "rename failed")
               /\ UNCHANGED <<final_output, temp_output, ret>>
          ELSE /\ final_output' = temp_output
               /\ temp_output' = Absent
               /\ pc' = "done"
               /\ ret' = Result(TRUE, "Successfully applied", Len(enabled_mods))
               /\ UNCHANGED <<exc, raised_at>>
    /\ UNCHANGED <<editvars, libvars, out_dir_exists, enabled_mods, mod_i,
                   modified_files, final_at_start, temp_at_start, pkg_failed,
                   run_log, repeat>>

\* lines 810-814
HandleException ==
    /\ pc = "except"
    /\ \E fails \in BOOLEAN :
          IF temp_output.state = "absent"
          THEN /\ pc' = "done"
               /\ ret' = Result(FALSE, exc, 0)
               /\ UNCHANGED temp_output
          ELSE IF fails
          THEN /\ pc' = "raised"
               /\ UNCHANGED <<temp_output, ret>>
          ELSE /\ temp_output' = Absent
               /\ pc' = "done"
               /\ ret' = Result(FALSE, exc, 0)
    /\ UNCHANGED <<editvars, libvars, out_dir_exists, final_output,
                   enabled_mods, mod_i, modified_files, exc, final_at_start,
                   temp_at_start, raised_at, pkg_failed, run_log, repeat>>

Next ==
    \/ Toggle
    \/ Start
    \/ Cleanup
    \/ ProcessNextMod
    \/ MakeOutputDir
    \/ WriteTemp
    \/ RemoveFinal
    \/ RenameTemp
    \/ HandleException

Spec == Init /\ [][Next]_vars

\* ------------------------------------------------------------------------
\* Properties of apply_mods
\* ------------------------------------------------------------------------
\* a call with at least one enabled mod has begun
RunWithMods == pc # "idle" /\ enabled_mods # <<>>

\* the call is over: it returned or its exception left apply_mods
CallOver == pc \in {"done", "raised"}

\* the steps that write the temporary archive and commit it
WriteOrCommit == {"write", "remove", "rename"}

\* C1: when the write of the temporary archive or the commit has raised in
\* a call with an enabled mod, the call returns with the final output as it
\* was before the call, the temporary archive gone and a failure result that
\* carries the text of the error.
C1_FailureKeepsFinal ==
    (pc = "done" /\ enabled_mods # <<>> /\ raised_at \in WriteOrCommit) =>
        /\ final_output = final_at_start
        /\ temp_output = Absent
        /\ ret = Result(FALSE, exc, 0)
        /\ exc # ""

\* C2: at every point of a call with an enabled mod the final output path
\* holds the previous derived archive (or is absent as before) or the
\* complete newly committed archive.
C2_NoPartialOutput ==
    RunWithMods =>
        \/ final_output = final_at_start
        \/ (pc = "done" /\ ret.ok /\ final_output = Complete(modified_files))

\* C3: a successful call that repeats the previous successful call, with the
\* same enabled mods and nothing changed in between, leaves a derived
\* archive with the mapping the previous call left.
C3_Idempotent ==
    (pc = "done" /\ ret.ok /\ repeat) =>
        /\ final_output.state = "complete"
        /\ final_at_start.state = "complete"
        /\ final_output.entries = final_at_start.entries

\* C3 witness: the repeated call has committed an archive with a patched file
C3_Witness ==
    /\ pc = "done" /\ ret.ok /\ repeat
    /\ "x" \in DOMAIN final_output.entries
    /\ final_output.entries["x"] # BaseFiles["x"]

\* C4: with no mod enabled apply_mods processes no package and writes no
\* temporary file, and unless the removal itself raises it reports success
\* and leaves no derived archive, whether or not the base archive exists.
C4_NoModsCleanup ==
    (pc # "idle" /\ enabled_mods = <<>>) =>
        /\ temp_output = temp_at_start
        /\ run_log = <<>>
        /\ modified_files = EmptyTable
        /\ pc \in {"cleanup", "done", "raised"}
        /\ (pc = "cleanup" => final_output = final_at_start)
        /\ (pc = "raised" => raised_at = "cleanup" /\ final_output = final_at_start)
        /\ (pc = "done" => ret.ok /\ final_output = Absent)

\* C4 witness: all mods were disabled after a call that had patched files,
\* and the call removed the derived archive
C4_Witness ==
    /\ pc = "done" /\ enabled_mods = <<>> /\ ret.ok
    /\ final_at_start.state = "complete"
    /\ "x" \in DOMAIN final_at_start.entries
    /\ final_output = Absent

\* C5: with an enabled mod and no base archive apply_mods returns failure
\* at once: no package is processed and the temporary and the final output
\* are as they were.
C5_BaseMissingFails ==
    (RunWithMods /\ ~base_exists) =>
        /\ pc = "done"
        /\ ~ret.ok
        /\ ret.msg = "Base archive not found"
        /\ mod_i = 1
        /\ run_log = <<>>
        /\ modified_files = EmptyTable
        /\ final_output = final_at_start
        /\ temp_output = temp_at_start

\* C5 witness: the call failed on the missing base archive and an earlier
\* derived archive is still in place
C5_Witness ==
    /\ pc = "done" /\ enabled_mods # <<>> /\ ~base_exists /\ ~ret.ok
    /\ final_output = Complete(StaleArchive)

\* C6: every call of apply_mods returns a pair; a file system error at any
\* step is reported as a failure result and no exception leaves apply_mods.
C6_AlwaysReturns ==
    /\ pc # "raised"
    /\ (pc = "done" /\ raised_at # "" => ~ret.ok /\ ret.msg = exc)

\* position of a mod in the list of this call
ModPos(m) == CHOOSE i \in 1..Len(enabled_mods) : enabled_mods[i] = m

\* the packages acted on the table in list order
LogInListOrder ==
    \A i, j \in 1..Len(run_log) :
        i < j => ModPos(run_log[i].mod) <= ModPos(run_log[j].mod)

\* the package of m was opened and its assets were copied
Injected(m) ==
    \E i \in 1..Len(run_log) : run_log[i].mod = m /\ run_log[i].kind = "inject"

\* the block of m on path was interpreted and stored
Edited(m, path) ==
    \E i \in 1..Len(run_log) :
        run_log[i].mod = m /\ run_log[i].kind = "edit" /\ run_log[i].path = path

\* the steps of apply_mods that touch the file system
FsSteps == {"cleanup", "mkdir", "write", "remove", "rename"}

\* C7: a failure inside one package (unreadable package, malformed
\* manifest, error inside an edit block, missing target) never aborts the
\* call: unless a file system step raises, every enabled mod is processed
\* in list order, the table is written and committed and the call reports
\* success.
C7_PackageFailureIsLocal ==
    (CallOver /\ enabled_mods # <<>> /\ base_exists /\ raised_at \notin FsSteps) =>
        /\ pc = "done"
        /\ ret.ok
        /\ mod_i = Len(enabled_mods) + 1
        /\ LogInListOrder
        /\ \A i \in 1..Len(enabled_mods) :
              Package(enabled_mods[i]).readable => Injected(enabled_mods[i])
        /\ (\E i \in 1..Len(enabled_mods) : enabled_mods[i] = "A") => Edited("A", "x")
        /\ (\E i \in 1..Len(enabled_mods) : enabled_mods[i] = "B") => Edited("B", "x")
        /\ final_output = Complete(modified_files)

\* C7 witness: the first two mods of the call failed (one unreadable, one
\* with a malformed manifest), a later mod hit a missing target and an
\* error in a block, and the call still committed that mod's edit
C7_Witness ==
    /\ pc = "done" /\ ret.ok
    /\ Len(enabled_mods) = 4
    /\ pkg_failed = {"C", "D"}
    /\ enabled_mods[1] \in pkg_failed /\ enabled_mods[2] \in pkg_failed
    /\ \E i \in 1..Len(run_log) : run_log[i].mod = "B" /\ run_log[i].kind = "skip"
    /\ \E i \in 1..Len(run_log) : run_log[i].mod = "B" /\ run_log[i].kind = "error"
    /\ Edited("B", "x")
    /\ "x" \in DOMAIN final_output.entries

\* the events before j that left content at the path of event j
WritesBefore(j) ==
    {i \in 1..(j - 1) : /\ run_log[i].path = run_log[j].path
                        /\ run_log[i].kind \in {"inject", "load", "edit"}}

Highest(S) == CHOOSE i \in S : \A k \in S : k <= i

\* C8: the enabled mods are processed in list order against one table:
\* every edit block starts from the content the latest earlier block or
\* injection left at its path, so with mod A before mod B the Find of B for
\* the text A's Replace introduced succeeds and B's Insert lands behind it.
C8_SharedTable ==
    /\ LogInListOrder
    /\ \A j \in 1..Len(run_log) :
          run_log[j].kind = "edit" =>
              /\ WritesBefore(j) # {}
              /\ run_log[j].entry = run_log[Highest(WritesBefore(j))].exit
    /\ (pc = "done" /\ ret.ok /\ Edited("A", "x") /\ Edited("B", "x")
           /\ ModPos("A") < ModPos("B")) =>
          final_output.entries["x"] = <<ChA, ChC, ChD, ChB>>

\* C8 witness: A ran before B in a committed call and B's block started
\* from the buffer A's block had stored
C8_Witness ==
    /\ pc = "done" /\ ret.ok
    /\ Edited("A", "x") /\ Edited("B", "x")
    /\ ModPos("A") < ModPos("B")
    /\ \E i, j \in 1..Len(run_log) :
          /\ i < j
          /\ run_log[i].mod = "A" /\ run_log[i].kind = "edit"
          /\ run_log[j].mod = "B" /\ run_log[j].kind = "edit"
          /\ run_log[j].entry = run_log[i].exit
          /\ run_log[j].exit # run_log[j].entry

\* the members of the package of m that asset injection is to copy to path
ShippedAs(m, path) ==
    LET pkg == Package(m)
    IN  {k \in 1..Len(pkg.members) :
            /\ pkg.readable
            /\ ~pkg.members[k].is_dir
            /\ Lower(CleanName(pkg.members[k].filename)) \notin ignored_files
            /\ CleanName(pkg.members[k].filename) = path}

\* the paths some member of some package is stored under
MemberPaths ==
    UNION {{CleanName(Package(m).members[k].filename) :
                k \in 1..Len(Package(m).members)} : m \in ModIds}

\* the manifest of m is read and its edit blocks are run
RunsBlocks(m) ==
    Package(m).readable /\ HasManifest(Package(m)) /\ Package(m).well_formed

\* the mod at position i of the call has an edit block on path
HasBlockOn(i, path) ==
    /\ RunsBlocks(enabled_mods[i])
    /\ \E k \in 1..Len(Package(enabled_mods[i]).editfiles) :
          Package(enabled_mods[i]).editfiles[k].name = path

\* C17: processing a package stores every member that is neither a
\* directory nor reserved under its path, overwriting whatever the table
\* holds there, content injected or patched by an earlier mod included;
\* when two mods ship the same path the committed archive holds the content
\* of the later one.
C17_InjectionOverwrites ==
    (pc \in {"mods", "mkdir", "write", "commit", "rename", "done"}
        /\ enabled_mods # <<>> /\ base_exists /\ mod_i > 1) =>
    \A path \in MemberPaths :
    \A shippers \in {{i \in 1..(mod_i - 1) : ShippedAs(enabled_mods[i], path) # {}}} :
        (shippers # {}) =>
          LET last == Highest(shippers)
              pkg == Package(enabled_mods[last])
              data == pkg.members[Highest(ShippedAs(enabled_mods[last], path))].data
          IN  /\ path \in DOMAIN modified_files
              /\ (\A i \in last..(mod_i - 1) : ~HasBlockOn(i, path))
                    => modified_files[path] = data
              /\ (pc = "done" /\ ret.ok
                    /\ \A i \in last..(mod_i - 1) : ~HasBlockOn(i, path))
                    => /\ path \in DOMAIN final_output.entries
                       /\ final_output.entries[path] = data

\* C17 witness: A shipped n and patched it, B shipped n after that, and the
\* committed archive holds B's n
C17_Witness ==
    /\ pc = "done" /\ ret.ok
    /\ Edited("A", "n") /\ Injected("B")
    /\ ModPos("A") < ModPos("B")
    /\ final_output.entries["n"] = <<ChB>>
    /\ \E i \in 1..Len(run_log) :
          /\ run_log[i].mod = "A" /\ run_log[i].kind = "edit"
          /\ run_log[i].path = "n" /\ run_log[i].exit = <<ChA, ChC>>

\* C18: the manifest file, the icon file(s), the changelog file and the
\* platform metadata file of a package are never copied into the table by
\* asset injection, whatever the letter case of their names.
C18_ReservedNeverInjected ==
    \A j \in 1..Len(run_log) :
        run_log[j].kind = "inject" =>
            /\ Lower(run_log[j].path) \notin ignored_files
            /\ run_log[j].path # Package(run_log[j].mod).icon

\* the events of the edit blocks of m, in the order they were run
BlockEvents(m) ==
    SelectSeq(run_log, LAMBDA e : e.mod = m /\ e.kind \in {"skip", "error", "edit"})

\* the paths something was stored under during this call
WrittenPaths ==
    {run_log[i].path : i \in {k \in 1..Len(run_log) :
                                 run_log[k].kind \in {"inject", "load", "edit"}}}

\* the last event of the call that stored content under path
LastWrite(path) ==
    Highest({i \in 1..Len(run_log) :
                /\ run_log[i].path = path
                /\ run_log[i].kind \in {"inject", "load", "edit"}})

\* the table holds what the injections, loads and blocks of the call left
TableIsLastWrites ==
    /\ DOMAIN modified_files = WrittenPaths
    /\ \A path \in WrittenPaths :
          modified_files[path] = run_log[LastWrite(path)].exit

\* C19: an edit block whose target is neither in the table nor in the base
\* archive is skipped and leaves the table as it was; the blocks of the
\* same manifest before and after it are still run, and unless a file
\* system step raises the call reports success.
C19_MissingTargetSkipped ==
    /\ TableIsLastWrites
    /\ \A i \in 1..(mod_i - 1) :
          (pc # "idle" /\ base_exists /\ RunsBlocks(enabled_mods[i])) =>
            LET blocks == Package(enabled_mods[i]).editfiles
                events == BlockEvents(enabled_mods[i])
            IN  /\ Len(events) = Len(blocks)
                /\ \A k \in 1..Len(blocks) :
                      /\ events[k].path = blocks[k].name
                      /\ (blocks[k].name \notin WrittenPaths \cup DOMAIN BaseArchive)
                            => /\ events[k].kind = "skip"
                               /\ blocks[k].name \notin DOMAIN modified_files
    /\ (CallOver /\ base_exists /\ Injected("B") /\ raised_at \notin FsSteps) =>
          /\ Edited("B", "x") /\ Edited("B", "d/m")
          /\ pc = "done" /\ ret.ok
          /\ "missing" \notin DOMAIN final_output.entries

\* C19 witness: B's block on a missing target was skipped between two of
\* its blocks that were run, and the call committed what those two stored
C19_Witness ==
    /\ pc = "done" /\ ret.ok
    /\ \E i, j, k \in 1..Len(run_log) :
          /\ i < j /\ j < k
          /\ run_log[i].mod = "B" /\ run_log[i].kind = "edit"
          /\ run_log[j].mod = "B" /\ run_log[j].kind = "skip"
          /\ run_log[j].path = "missing"
          /\ run_log[k].mod = "B" /\ run_log[k].kind = "edit"
          /\ run_log[k].path = "d/m"
    /\ "missing" \notin DOMAIN final_output.entries
    /\ final_output.entries["d/m"] = <<ChB, ChA>>

\* the paths the mods of the call ship or have an existing target of an
\* edit block at
TouchedPaths ==
    {path \in MemberPaths :
        \E i \in 1..Len(enabled_mods) : ShippedAs(enabled_mods[i], path) # {}}
      \cup {path \in DOMAIN BaseArchive :
               \E i \in 1..Len(enabled_mods) : HasBlockOn(i, path)}

\* C20: after a successful call with an enabled mod the mapping of the
\* derived archive is the working table as it was at the commit: exactly
\* the paths injected or targeted by an edit block during this call, each
\* with its final content, and no entry carried over from the derived
\* archive of an earlier call.
C20_ArchiveIsTable ==
    (pc = "done" /\ ret.ok /\ enabled_mods # <<>>) =>
        /\ final_output = Complete(modified_files)
        /\ DOMAIN final_output.entries = WrittenPaths
        /\ DOMAIN final_output.entries = TouchedPaths
        /\ \A path \in WrittenPaths :
              final_output.entries[path] = run_log[LastWrite(path)].exit
        /\ \A path \in DOMAIN final_at_start.entries :
              path \in DOMAIN final_output.entries => path \in WrittenPaths

\* C20 witness: the call started with a derived archive of an earlier
\* session in place and committed an archive without that archive's entry
C20_Witness ==
    /\ pc = "done" /\ ret.ok /\ enabled_mods # <<>>
    /\ final_at_start = Complete(StaleArchive)
    /\ "old" \notin DOMAIN final_output.entries
    /\ "x" \in DOMAIN final_output.entries
    /\ "z" \in DOMAIN final_output.entries

\* C21: on a successful call with mods enabled the number in the success
\* message is the number of enabled mods whose package was processed
\* without a per-package failure.
C21_CountsAppliedMods ==
    (pc = "done" /\ ret.ok /\ enabled_mods # <<>>) =>
        ret.count = Cardinality({i \in 1..Len(enabled_mods) :
                                    enabled_mods[i] \notin pkg_failed})

\* C22: every edit block whose target exists in the working table or in
\* the base archive has the directive interpreter run on the target's
\* content, whatever that content is, and the result stored back at the
\* path (blocks that raise are C7's matter and left aside).
C22_ExistingTargetPatched ==
    \A i \in 1..(mod_i - 1) :
        (pc # "idle" /\ base_exists /\ RunsBlocks(enabled_mods[i])) =>
            LET blocks == Package(enabled_mods[i]).editfiles
                events == BlockEvents(enabled_mods[i])
            IN  \A k \in 1..Len(blocks) :
                  (~blocks[k].raises /\ blocks[k].name \in DOMAIN modified_files) =>
                      /\ events[k].kind = "edit"
                      /\ events[k].exit
                            = PatchContent(events[k].entry, blocks[k].children)

\* the events that read path from the base archive
Loads(path) ==
    {i \in 1..Len(run_log) : run_log[i].kind = "load" /\ run_log[i].path = path}

\* C23: within one call the base archive is read for a path only when an
\* edit block targets the path while the table has no entry for it; once a
\* path is in the table, by injection or by an earlier load, no later block
\* or mod puts base archive content in its place.
C23_BaseReadOnlyWhenAbsent ==
    \A j \in 1..Len(run_log) :
        /\ run_log[j].kind = "load" =>
              /\ WritesBefore(j) = {}
              /\ run_log[j].path \in DOMAIN BaseArchive
              /\ run_log[j].exit = BaseArchive[run_log[j].path]
              /\ j < Len(run_log)
              /\ run_log[j + 1].mod = run_log[j].mod
              /\ run_log[j + 1].path = run_log[j].path
              /\ run_log[j + 1].kind \in {"skip", "error", "edit"}
        /\ (run_log[j].kind \in {"error", "edit"} /\ WritesBefore(j) # {}) =>
              run_log[j].entry = run_log[Highest(WritesBefore(j))].exit

\* C23 witness: x was read from the base archive once, for the first block
\* that targeted it, and a later mod's block started from patched content;
\* n, which the base archive also holds, was injected and never read from it
C23_Witness ==
    /\ pc = "done" /\ ret.ok
    /\ Cardinality(Loads("x")) = 1
    /\ \E j \in 1..Len(run_log) :
          /\ run_log[j].kind = "edit" /\ run_log[j].path = "x"
          /\ run_log[j].mod # run_log[Highest(Loads("x"))].mod
          /\ run_log[j].entry # BaseFiles["x"]
    /\ "n" \in DOMAIN BaseFiles
    /\ Edited("A", "n")
    /\ Loads("n") = {}

\* lines 791-794: the loop over the enabled mods is running or has just
\* ended; no later step of the call touches the table
PackagesPhase == pc \in {"mods", "mkdir"}

\* the children of a block from its first search on
RECURSIVE FromFirstSearch(_)
FromFirstSearch(children) ==
    IF Len(children) = 0 THEN <<>>
    ELSE IF Head(children).tag \in {"find", "findup"} THEN children
    ELSE FromFirstSearch(Tail(children))

\* C24: match state is not carried across blocks.  Every edit block, a
\* second block on the same target in the same mod and the first block of
\* the next mod included, starts with cursor = 0 and no active match: what
\* it stores is what its children from the first search on make of the
\* content it found, so a Replace or Insert in front of that search does
\* nothing even if the block before ended with an active match.  Looked at
\* while the packages are processed, the only steps that run blocks.
C24_FreshMatchState ==
    \A i \in 1..(mod_i - 1) :
        (PackagesPhase /\ base_exists /\ RunsBlocks(enabled_mods[i])) =>
            \A blocks \in {Package(enabled_mods[i]).editfiles} :
            \A events \in {BlockEvents(enabled_mods[i])} :
                /\ Len(events) = Len(blocks)
                /\ \A k \in 1..Len(blocks) :
                      events[k].kind = "edit" =>
                          events[k].exit
                             = PatchContent(events[k].entry,
                                            FromFirstSearch(blocks[k].children))

\* C24 witness: A's first block on x ended with an active match and
\* changed x; A's second block on x begins with an Insert and stored x as
\* it found it; B's block on x, run after A, begins with a Replace and
\* stored only what its Find and Insert did
C24_Witness ==
    /\ pc = "done" /\ ret.ok
    /\ Edited("A", "x") /\ Edited("B", "x")
    /\ ModPos("A") < ModPos("B")
    /\ Package("A").editfiles[2].name = "x"
    /\ Package("A").editfiles[2].children[1].tag = "insert"
    /\ Package("B").editfiles[1].children[1].tag = "replace"
    /\ \E i \in 1..(Len(run_log) - 1) :
          /\ run_log[i].mod = "A" /\ run_log[i].kind = "edit"
          /\ run_log[i].path = "x"
          /\ run_log[i].exit # run_log[i].entry
          /\ run_log[i + 1].mod = "A" /\ run_log[i + 1].kind = "edit"
          /\ run_log[i + 1].path = "x"
          /\ run_log[i + 1].entry = run_log[i].exit
          /\ run_log[i + 1].exit = run_log[i].exit
    /\ final_output.entries["x"] = <<ChA, ChC, ChD, ChB>>

\* C27: within one package every asset is injected before any edit block
\* runs: a block whose target the same package ships starts from the
\* content the package injected (or from what an earlier block of the same
\* package made of it), never from the base archive's content and never
\* from an earlier mod's version of the path.  Looked at while the
\* packages are processed, the only steps that inject or run blocks.
C27_InjectionBeforeBlocks ==
    PackagesPhase =>
    /\ \A i, j \in 1..Len(run_log) :
          (run_log[i].mod = run_log[j].mod /\ run_log[j].kind = "inject"
              /\ run_log[i].kind # "inject") => j < i
    /\ \A j \in 1..Len(run_log) :
          (run_log[j].kind \in {"error", "edit"}
              /\ ShippedAs(run_log[j].mod, run_log[j].path) # {}) =>
            LET m == run_log[j].mod
                own == {i \in WritesBefore(j) : run_log[i].mod = m}
                data == Package(m).members[
                            Highest(ShippedAs(m, run_log[j].path))].data
            IN  /\ own # {}
                /\ Loads(run_log[j].path) = {}
                /\ run_log[j].entry = run_log[Highest(own)].exit
                /\ (\A i \in own : run_log[i].kind = "inject")
                      => run_log[j].entry = data

\* C27 witness: B shipped n first and the base archive holds another n; A,
\* processed after B, ships n and its block on n started from A's own n
C27_Witness ==
    /\ pc = "done" /\ ret.ok
    /\ Injected("B") /\ Edited("A", "n")
    /\ ModPos("B") < ModPos("A")
    /\ BaseFiles["n"] # <<ChA>>
    /\ \E j \in 1..Len(run_log) :
          /\ run_log[j].mod = "A" /\ run_log[j].kind = "edit"
          /\ run_log[j].path = "n"
          /\ run_log[j].entry = <<ChA>>
          /\ \E i \in 1..(j - 1) :
                /\ run_log[i].mod = "B" /\ run_log[i].kind = "inject"
                /\ run_log[i].path = "n" /\ run_log[i].exit = <<ChB>>
    /\ final_output.entries["n"] = <<ChA, ChC>>

\* the directives of children that only search
SearchOnly(children) ==
    \A k \in 1..Len(children) : children[k].tag \in {"find", "findup"}

\* C29: an edit block none of whose directives changes the buffer (no
\* directives or searches only) leaves the target's content in the working
\* table byte-identical to the content at block entry, whether the content
\* is valid UTF-8 or decodable by the fallback encoding only.
C29_UnchangedBlockKeepsBytes ==
    \A i \in 1..(mod_i - 1) :
        (pc \in {"mods", "mkdir"} /\ base_exists /\ RunsBlocks(enabled_mods[i])) =>
            LET blocks == Package(enabled_mods[i]).editfiles
                events == BlockEvents(enabled_mods[i])
            IN  \A k \in 1..Len(blocks) :
                  (/\ ~blocks[k].raises
                   /\ events[k].kind = "edit"
                   /\ SearchOnly(blocks[k].children)) =>
                      events[k].exit = events[k].entry

\* ------------------------------------------------------------------------
\* One edit block, directive by directive
\* ------------------------------------------------------------------------
\* lines 846-847: the content of the target at block entry, a non-empty
\* text file whose line breaks are LF or CRLF
EntryContents ==
    {t \in SeqsUpTo(TextAlphabet, MaxBuf) \ {<<>>} :
        \A i \in 1..Len(t) : t[i] = CR => (i < Len(t) /\ t[i + 1] = LF)}

CurState == MatchState(text_content, cursor, match_start, match_end, found_idx)

\* lines 846-865: block entry
EditInit ==
    /\ current_content_bytes \in EntryContents
    /\ text_content = DecodeContent(current_content_bytes)
    /\ newline_mode = DetectNewline(text_content)
    /\ cursor = 0
    /\ match_start = -1
    /\ match_end = -1
    /\ child = NoChild
    /\ found_idx = -1
    /\ nexec = 0
    /\ edit_pc = "loop"
    /\ stored_bytes = <<>>
    /\ script = <<>>
    /\ EngineIdle

\* ExecDirective detecting the line-break style again for every directive
ExecDirective_Redetect(d) ==
    /\ edit_pc = "loop"
    /\ nexec < MaxDirs
    /\ \E st \in {ApplyDirective(CurState, d, DetectNewline(text_content))} :
           /\ Len(st.text_content) <= MaxText
           /\ text_content' = st.text_content
           /\ cursor' = st.cursor
           /\ match_start' = st.match_start
           /\ match_end' = st.match_end
           /\ found_idx' = st.found_idx
    /\ child' = d
    /\ nexec' = nexec + 1
    /\ UNCHANGED <<current_content_bytes, newline_mode, edit_pc, stored_bytes,
                   script>>
    /\ UNCHANGED <<libvars, fsvars, runvars, histvars>>

\* lines 868-943
ExecDirective(d) ==
    /\ edit_pc = "loop"
    /\ nexec < MaxDirs
    /\ \E st \in {ApplyDirective(CurState, d, newline_mode)} :
           /\ Len(st.text_content) <= MaxText
           /\ text_content' = st.text_content
           /\ cursor' = st.cursor
           /\ match_start' = st.match_start
           /\ match_end' = st.match_end
           /\ found_idx' = st.found_idx
    /\ child' = d
    /\ nexec' = nexec + 1
    /\ UNCHANGED <<current_content_bytes, newline_mode, edit_pc, stored_bytes,
                   script>>
    /\ UNCHANGED <<libvars, fsvars, runvars, histvars>>

Find    == \E d \in Directives : d.tag = "find" /\ ExecDirective(d)
FindUp  == \E d \in Directives : d.tag = "findup" /\ ExecDirective(d)
Replace == \E d \in Directives : d.tag = "replace" /\ ExecDirective(d)
Insert  == \E d \in Directives : d.tag = "insert" /\ ExecDirective(d)

\* line 945
StoreBack ==
    /\ edit_pc = "loop"
    /\ stored_bytes' = Utf8Encode(text_content)
    /\ edit_pc' = "stored"
    /\ UNCHANGED <<current_content_bytes, text_content, newline_mode, cursor,
                   match_start, match_end, child, found_idx, nexec, script>>
    /\ UNCHANGED <<libvars, fsvars, runvars, histvars>>

\* lines 947-948: an exception inside the block leaves the table as it was
BlockError ==
    /\ edit_pc = "loop"
    /\ edit_pc' = "error"
    /\ UNCHANGED <<current_content_bytes, text_content, newline_mode, cursor,
                   match_start, match_end, child, found_idx, nexec,
                   stored_bytes, script>>
    /\ UNCHANGED <<libvars, fsvars, runvars, histvars>>

EditNext == Find \/ FindUp \/ Replace \/ Insert \/ StoreBack \/ BlockError

SpecEdit == EditInit /\ [][EditNext]_vars

\* ------------------------------------------------------------------------
\* Properties of the directive interpreter
\* ------------------------------------------------------------------------
\* the step just taken executed a directive with this tag
Executed(tag) == nexec' = nexec + 1 /\ child'.tag = tag

\* the literal of the directive just executed, as the block searches it
SearchTextNext == NormalizeLiteral(child'.text, newline_mode)

SearchText == NormalizeLiteral(child.text, newline_mode)

\* C9: Find(text) matches the first occurrence of text at or after cursor;
\* on success match_span is exactly that occurrence, cursor its end and the
\* buffer is unchanged; on failure buffer, cursor and match_span are
\* unchanged, and in both cases the block goes on with its next directive.
C9_FindForward ==
    [][Executed("find") =>
        \A sub \in {SearchTextNext} :
        \A occ \in {{i \in cursor..Len(text_content) :
                        OccursAt(text_content, sub, i)}} :
            /\ text_content' = text_content
            /\ edit_pc' = "loop"
            /\ IF occ # {}
               THEN /\ match_start' \in occ
                    /\ \A i \in occ : match_start' <= i
                    /\ match_end' = match_start' + Len(sub)
                    /\ cursor' = match_end'
               ELSE UNCHANGED <<cursor, match_start, match_end>>]_vars

\* C9 witness: a Find succeeded on an occurrence that is not the first of
\* the buffer (an earlier one lies before the cursor it started from)
C9_Witness ==
    /\ child.tag = "find"
    /\ Len(SearchText) > 0
    /\ found_idx > 0
    /\ match_start = found_idx
    /\ \E i \in 0..(found_idx - 1) : OccursAt(text_content, SearchText, i)

\* C10: FindUp with position "end" matches the last occurrence of the whole
\* buffer; with any other or no position it matches the last occurrence
\* ending at or before cursor.  On success match_span is that occurrence
\* and cursor its end; on failure cursor and match_span are unchanged.
C10_FindUp ==
    [][Executed("findup") =>
        \A sub \in {SearchTextNext} :
        \A bound \in {IF child'.position = "end" THEN Len(text_content)
                       ELSE cursor} :
        \A occ \in {{i \in 0..bound :
                        OccursAt(text_content, sub, i) /\ i + Len(sub) <= bound}} :
            /\ text_content' = text_content
            /\ IF occ # {}
               THEN /\ match_start' \in occ
                    /\ \A i \in occ : i <= match_start'
                    /\ match_end' = match_start' + Len(sub)
                    /\ cursor' = match_end'
               ELSE UNCHANGED <<cursor, match_start, match_end>>]_vars

\* C10 witness: a FindUp bounded by the cursor succeeded although a later
\* occurrence exists in the buffer
C10_Witness ==
    /\ child.tag = "findup"
    /\ child.position # "end"
    /\ Len(SearchText) > 0
    /\ found_idx # -1
    /\ match_start = found_idx
    /\ \E i \in (found_idx + 1)..Len(text_content) :
            OccursAt(text_content, SearchText, i)

\* C11: Replace(text) with an active match replaces exactly the characters
\* of match_span by text and leaves every character outside it unchanged
\* and in order; afterwards match_span covers exactly the inserted text and
\* cursor is at the end of the inserted text.
C11_Replace ==
    [][(Executed("replace") /\ match_start # -1) =>
        \A sub \in {SearchTextNext} :
            /\ text_content' = Slice(text_content, 0, match_start) \o sub
                     \o Slice(text_content, match_end, Len(text_content))
            /\ match_start' = match_start
            /\ match_end' = match_start + Len(sub)
            /\ Slice(text_content', match_start', match_end') = sub
            /\ cursor' = match_end'
            /\ edit_pc' = "loop"]_vars

\* C11 witness: a Replace put a non-empty text in place of a match that has
\* characters of the buffer on both sides
C11_Witness ==
    /\ child.tag = "replace"
    /\ match_start > 0
    /\ match_end < Len(text_content)
    /\ Len(SearchText) > 0
    /\ Slice(text_content, match_start, match_end) = SearchText
    /\ cursor = match_end

\* C12: Insert(text, position="before") with an active match splices text
\* immediately before the match and moves match_span and cursor forward by
\* the length of text, so match_span still covers the characters it covered
\* and a Replace executed next replaces the originally matched text, not the
\* inserted text.
C12_InsertBefore ==
    [][(Executed("insert") /\ child'.position = "before" /\ match_start # -1) =>
        \A sub \in {SearchTextNext} :
            /\ text_content' = Slice(text_content, 0, match_start) \o sub
                     \o Slice(text_content, match_start, Len(text_content))
            /\ match_start' = match_start + Len(sub)
            /\ match_end' = match_end + Len(sub)
            /\ cursor' = cursor + Len(sub)
            /\ Slice(text_content', match_start', match_end')
                   = Slice(text_content, match_start, match_end)
            /\ \A r \in LiteralUnits :
                 \A rt \in {NormalizeLiteral(r, newline_mode)} :
                   ApplyDirective(CurState', Dir("replace", r, ""),
                                  newline_mode).text_content
                     = Slice(text_content, 0, match_start) \o sub \o rt
                         \o Slice(text_content, match_end, Len(text_content))]_vars

\* C12 witness: a non-empty text was inserted before a non-empty match that
\* does not start the buffer
C12_Witness ==
    /\ child.tag = "insert"
    /\ child.position = "before"
    /\ match_start # -1
    /\ Len(SearchText) > 0
    /\ match_start > Len(SearchText)
    /\ match_end > match_start
    /\ Slice(text_content, match_start - Len(SearchText), match_start)
           = SearchText

\* C13: Insert(text) with position "after" or without a position, executed
\* with an active match, splices text immediately after the end of the
\* match, leaves match_span unchanged and moves cursor forward by the length
\* of text.
C13_InsertAfter ==
    [][(Executed("insert") /\ child'.position \in {"", "after"}
            /\ match_start # -1) =>
        \A sub \in {SearchTextNext} :
            /\ text_content' = Slice(text_content, 0, match_end) \o sub
                     \o Slice(text_content, match_end, Len(text_content))
            /\ UNCHANGED <<match_start, match_end>>
            /\ cursor' = cursor + Len(sub)]_vars

\* C13 witness: a text was inserted after a match when the cursor was
\* already beyond the end of that match
C13_Witness ==
    /\ child.tag = "insert"
    /\ child.position \in {"", "after"}
    /\ match_start # -1
    /\ Len(SearchText) > 0
    /\ Slice(text_content, match_end, match_end + Len(SearchText)) = SearchText
    /\ cursor > match_end + Len(SearchText)

\* C14: a Replace or an Insert executed while no search of the block has
\* succeeded changes neither the buffer nor cursor nor match_span, raises
\* nothing, and the block goes on with its next directive.
C14_NoMatchNoOp ==
    [][((Executed("replace") \/ Executed("insert")) /\ match_start = -1) =>
            /\ UNCHANGED <<text_content, cursor, match_start, match_end>>
            /\ edit_pc' = "loop"]_vars

\* C14 witness: after a search that failed, an Insert of a non-empty text
\* left the buffer as the block received it and the block is still running
C14_Witness ==
    /\ nexec = 2
    /\ child.tag = "insert"
    /\ Len(SearchText) > 0
    /\ match_start = -1
    /\ found_idx = -1
    /\ cursor = 0
    /\ text_content = DecodeContent(current_content_bytes)
    /\ edit_pc = "loop"

\* a text with every line break written as LF
OneBreakStyle(s) == StrReplace(s, CRLF, <<LF>>)

\* every line break of the buffer is written in the style of the block:
\* CR and LF occur only as CRLF, or no CR occurs at all
UniformBreaks(text, mode) ==
    IF mode = CRLF
    THEN \A i \in 1..Len(text) :
            /\ text[i] = LF => (i > 1 /\ text[i - 1] = CR)
            /\ text[i] = CR => (i < Len(text) /\ text[i + 1] = LF)
    ELSE \A i \in 1..Len(text) : text[i] # CR

\* C16: whichever way the literal writes its line breaks (LF or CRLF), a
\* search on a buffer whose line breaks are all CRLF, or all LF, matches
\* exactly where the literal occurs in the buffer once both are reduced to
\* one line-break style.
C16_StyleIndependent ==
    [][((Executed("find") \/ Executed("findup"))
            /\ UniformBreaks(text_content, newline_mode)) =>
        \A lit \in {OneBreakStyle(child'.text)} :
        \A buf \in {OneBreakStyle(text_content)} :
        \A from \in {Len(OneBreakStyle(Slice(text_content, 0, cursor)))} :
        \A at \in {IF child'.tag = "find" THEN StrFind(buf, lit, from)
                    ELSE IF child'.position = "end"
                         THEN StrRFind(buf, lit, 0, Len(buf))
                         ELSE StrRFind(buf, lit, 0, from)} :
            IF at = -1
            THEN found_idx' = -1
            ELSE /\ found_idx' # -1
                 /\ match_start' = found_idx'
                 /\ Len(OneBreakStyle(Slice(text_content, 0, match_start'))) = at
                 /\ OneBreakStyle(Slice(text_content, match_start', match_end'))
                        = lit]_vars

\* C16 witness: a literal written with LF matched the CRLF of a buffer
C16_Witness ==
    /\ child.tag = "find"
    /\ child.text = <<LF>>
    /\ newline_mode = CRLF
    /\ found_idx # -1
    /\ match_start = found_idx
    /\ Slice(text_content, match_start, match_end) = CRLF

\* the converse case: a literal written with CRLF matched the LF of a buffer
C16_WitnessConverse ==
    /\ child.tag = "find"
    /\ child.text = CRLF
    /\ newline_mode = <<LF>>
    /\ found_idx # -1
    /\ match_start = found_idx
    /\ Slice(text_content, match_start, match_end) = <<LF>>

\* ------------------------------------------------------------------------
\* One edit block whose children are Find(t), Replace(r), Find(t)
\* ------------------------------------------------------------------------
FindReplaceFind ==
    {<<Dir("find", t, ""), Dir("replace", r, ""), Dir("find", t, "")>> :
        t \in Literals, r \in Literals}

\* lines 846-865: block entry
ScriptInit ==
    /\ current_content_bytes \in EntryContents
    /\ text_content = DecodeContent(current_content_bytes)
    /\ newline_mode = DetectNewline(text_content)
    /\ cursor = 0
    /\ match_start = -1
    /\ match_end = -1
    /\ child = NoChild
    /\ found_idx = -1
    /\ nexec = 0
    /\ edit_pc = "loop"
    /\ stored_bytes = <<>>
    /\ script \in FindReplaceFind
    /\ EngineIdle

\* line 868: the loop takes the children in document order
NextChild ==
    /\ nexec < Len(script)
    /\ ExecDirective(script[nexec + 1])

\* line 945, after the last child
EndOfChildren ==
    /\ nexec = Len(script)
    /\ StoreBack

ScriptNext == NextChild \/ EndOfChildren

SpecScript == ScriptInit /\ [][ScriptNext]_vars

\* the second Find of the block is the step being taken, and the first Find
\* had succeeded
SecondFind == nexec = 2 /\ nexec' = 3 /\ match_start # -1

\* C15 as stated: in one block, after a successful Find(t) followed by
\* Replace(r), a second Find(t) for the original text (a non-empty one here)
\* fails: it reports a miss and leaves cursor and match_span as Replace set
\* them.
C15_SecondFindFails ==
    [][(SecondFind /\ Len(script[1].text) > 0) =>
            /\ found_idx' = -1
            /\ UNCHANGED <<cursor, match_start, match_end>>]_vars

\* C15 amended: after a successful Find(t) followed by Replace(r), a second
\* Find(t) never matches inside the text Replace put in; it fails, leaving
\* cursor and match_span as Replace set them, exactly when t does not occur
\* in the buffer behind the first match, and otherwise it matches the next
\* occurrence of t behind the replaced text.
C15_SecondFindSkipsReplacement ==
    [][SecondFind =>
        \A t \in {NormalizeLiteral(script[1].text, newline_mode)} :
        \A entry \in {DecodeContent(current_content_bytes)} :
        \A behind \in {StrFind(entry, t, 0) + Len(t)} :
        \A later \in {{i \in behind..Len(entry) : OccursAt(entry, t, i)}} :
            /\ text_content' = text_content
            /\ Slice(text_content, cursor, Len(text_content))
                   = Slice(entry, behind, Len(entry))
            /\ IF later = {}
               THEN /\ found_idx' = -1
                    /\ UNCHANGED <<cursor, match_start, match_end>>
               ELSE /\ found_idx' # -1
                    /\ match_start' >= cursor
                    /\ match_start' - cursor + behind \in later
                    /\ \A i \in later : match_start' - cursor + behind <= i
                    /\ match_end' = match_start' + Len(t)
                    /\ cursor' = match_end']_vars

\* C15 witness: the replacement contains the text searched for, and the
\* second Find still missed it
C15_Witness ==
    /\ nexec = 3
    /\ child = script[3]
    /\ Len(SearchText) > 0
    /\ script[2].text = script[1].text
    /\ match_start # -1
    /\ found_idx = -1
    /\ Slice(text_content, match_start, match_end) = SearchText
    /\ cursor = match_end

\* C25: the line-break style the literals are translated to is fixed at
\* block entry (CRLF if the buffer then holds a CRLF, else LF) and every
\* directive of the block uses it, also after directives of the block have
\* added or removed every CRLF of the buffer.
C25_NewlineModeFixed ==
    [][nexec' = nexec + 1 =>
        \A mode \in {DetectNewline(DecodeContent(current_content_bytes))} :
        \A sub \in {NormalizeLiteral(child'.text, mode)} :
            /\ newline_mode = mode
            /\ newline_mode' = mode
            /\ (child'.tag \in {"find", "findup"} /\ found_idx' # -1) =>
                  Slice(text_content', match_start', match_end') = sub
            /\ (child'.tag = "replace" /\ match_start # -1) =>
                  /\ Slice(text_content', match_start', match_end') = sub
                  /\ Len(text_content')
                        = Len(text_content) - (match_end - match_start) + Len(sub)
            /\ (child'.tag = "insert" /\ match_start # -1) =>
                  /\ Len(text_content') = Len(text_content) + Len(sub)
                  /\ IF child'.position = "before"
                     THEN Slice(text_content', match_start, match_start') = sub
                     ELSE Slice(text_content', match_end, match_end + Len(sub))
                             = sub]_vars

\* C25 witness: the block began on a buffer with a CRLF, its directives
\* removed every CRLF, and an Insert of a literal written with LF then put
\* in a CRLF
C25_Witness ==
    /\ child.tag = "insert"
    /\ child.position # "before"
    /\ child.text = <<LF>>
    /\ newline_mode = CRLF
    /\ match_start # -1
    /\ Slice(text_content, match_end, match_end + 2) = CRLF
    /\ ~Contains(Slice(text_content, 0, match_end)
                    \o Slice(text_content, match_end + 2, Len(text_content)),
                 CRLF)

\* C26: after every directive of a block, whatever the directives and the
\* buffer, 0 <= cursor <= len(buffer), and while a match is active
\* 0 <= match_start <= match_end <= cursor <= len(buffer).
C26_OffsetsInRange ==
    /\ 0 <= cursor
    /\ cursor <= Len(text_content)
    /\ match_start # -1 =>
          /\ 0 <= match_start
          /\ match_start <= match_end
          /\ match_end <= cursor

\* C26 witness: after an Insert the match is active and neither empty nor
\* at the cursor, and the cursor is inside the buffer
C26_Witness ==
    /\ child.tag = "insert"
    /\ match_start # -1
    /\ match_start < match_end
    /\ match_end < cursor
    /\ cursor < Len(text_content)

\* ------------------------------------------------------------------------
\* One edit block whose children are Find(t), Insert(s) after the match,
\* Replace(r)
\* ------------------------------------------------------------------------
FindInsertReplace ==
    {<<Dir("find", t, ""), Dir("insert", s, "after"), Dir("replace", r, "")>> :
        t \in Literals, s \in Literals, r \in Literals}

\* lines 846-865: block entry
SpliceInit ==
    /\ current_content_bytes \in EntryContents
    /\ text_content = DecodeContent(current_content_bytes)
    /\ newline_mode = DetectNewline(text_content)
    /\ cursor = 0
    /\ match_start = -1
    /\ match_end = -1
    /\ child = NoChild
    /\ found_idx = -1
    /\ nexec = 0
    /\ edit_pc = "loop"
    /\ stored_bytes = <<>>
    /\ script \in FindInsertReplace
    /\ EngineIdle

SpecSplice == SpliceInit /\ [][ScriptNext]_vars

\* C28: within one block a forward Find never matches characters an earlier
\* Replace or Insert of the block spliced in: after every successful Replace
\* or Insert all text the block has spliced in so far lies at or before
\* cursor.  Here for the text of the Insert, which lies right behind the
\* match, after the Insert and after the Replace that follows it.
C28_SplicedTextBehindCursor ==
    (Len(script) = 3 /\ script[2].tag = "insert" /\ nexec >= 2
        /\ match_start # -1) =>
        \A s \in {NormalizeLiteral(script[2].text, newline_mode)} :
            /\ Slice(text_content, match_end, match_end + Len(s)) = s
            /\ match_end + Len(s) <= cursor

\* ------------------------------------------------------------------------
\* The mod library of HoNModManager: toggles, imports, and the list handed
\* to apply_mods
\* ------------------------------------------------------------------------

\* the libraries made of some of the packages, in any order
Libraries == UNION {Orders(S) : S \in SUBSET ModIds}

\* line 1141: the flag parse_mod_file gives a mod
ParsedFlag(m) == m \in saved_enabled_mods

\* lines 1011, 1031-1042, 1151-1157: program start; the flags come from the
\* configuration file the previous session saved
LibraryInit ==
    /\ EditIdle
    /\ INSTALLED_MODS \in Libraries
    /\ saved_enabled_mods \in SUBSET ModIds
    /\ enabled = [m \in ModIds |-> m \in Installed /\ ParsedFlag(m)]
    /\ last_set = enabled
    /\ base_exists \in BOOLEAN
    /\ final_output = Absent
    /\ out_dir_exists = TRUE
    /\ temp_output = Absent
    /\ pc = "idle"
    /\ enabled_mods = <<>>
    /\ mod_i = 1
    /\ modified_files = EmptyTable
    /\ exc = ""
    /\ ret = NoResult
    /\ final_at_start = final_output
    /\ temp_at_start = temp_output
    /\ raised_at = ""
    /\ pkg_failed = {}
    /\ run_log = <<>>
    /\ repeat = FALSE

\* lines 1188-1223: import_mods and import_dropped_mods copy the chosen
\* files into the mods directory, then refresh_mods_library (lines 1151-1157)
\* clears INSTALLED_MODS and parses every file of the directory again
ImportMods ==
    /\ Returned
    /\ \E new \in SUBSET (ModIds \ Installed) :
          /\ INSTALLED_MODS' \in Orders(Installed \cup new)
          /\ enabled' = [m \in ModIds |->
                            m \in (Installed \cup new) /\ ParsedFlag(m)]
          /\ last_set' = [m \in ModIds |->
                            IF m \in new THEN ParsedFlag(m) ELSE last_set[m]]
    /\ pc' = "idle"
    /\ enabled_mods' = <<>>
    /\ mod_i' = 1
    /\ modified_files' = EmptyTable
    /\ exc' = ""
    /\ ret' = NoResult
    /\ final_at_start' = final_output
    /\ temp_at_start' = temp_output
    /\ raised_at' = ""
    /\ pkg_failed' = {}
    /\ run_log' = <<>>
    /\ repeat' = FALSE
    /\ UNCHANGED <<editvars, saved_enabled_mods, base_exists, fsvars>>

LibraryNext == Toggle \/ ImportMods \/ Start

SpecLibrary == LibraryInit /\ [][LibraryNext]_vars

\* C30: importing packages preserves the enabled flag of every mod that was
\* installed before: each has the value the user last set, and the list
\* handed to the next apply_mods is made of the mods whose last set value
\* is enabled.
C30_ImportKeepsFlags ==
    /\ \A m \in Installed : enabled[m] = last_set[m]
    /\ (pc # "idle") => (enabled_mods = EnabledOf(INSTALLED_MODS, last_set))

====
